---- MODULE Spec2Model ----
(***************************************************************************)
(* Model of the ilpas record store (core/store.py Store with the          *)
(* dx/in_memory_store.py InMemoryStore backend) and of the progressive    *)
(* configuration assembler (core/instance.py Instance).                   *)
(*                                                                         *)
(* Store.put_by_primary_key calls self._insert_given_pkey(ns, pk, v, l)    *)
(* and Store.put_by_labels calls self._insert_new_pkey(ns, v, l); the      *)
(* backend implements these two roles under the names _insert_new_pkey     *)
(* (four arguments) and _create_pkey (three arguments).  The model binds   *)
(* each call to the backend method of the same role and signature.         *)
(***************************************************************************)
EXTENDS Integers, Sequences, FiniteSets, TLC

VARIABLES
    store,          \* InMemoryStore.store: namespace -> primary key -> record
    label_index,    \* InMemoryStore.label_index: namespace -> key -> value -> set
    last,           \* the last store call: its arguments and its outcome
    nops,           \* number of store calls made so far
    config_data,    \* Instance._config_data: field name -> value
    state,          \* Instance._state
    inst_last,      \* the last Instance call: its arguments and its outcome
    self,           \* Instance: integration, namespace, primary_key, labels, temporary
    contributed,    \* suppliers whose add_configuration this Instance accepted
    saved_under,    \* <<namespace, primary key>> -> the supplied_config of the
                    \* integration whose Instance last saved that record
    tasks,          \* concurrent put_by_labels calls: task -> its position,
                    \* its arguments and the locals it holds across awaits
    insts,          \* two Instance objects alive at once: holder -> the
                    \* Instance, the stored value it was restored from (base)
                    \* and whether it has saved since (saved)
    decl,           \* an Instance of a schema whose field metadata is as
                    \* its author declared it, and the last call on it
    asm             \* an Instance, an InstanceManager and a
                    \* ConfigurationManager of one schema given the same
                    \* contributions, and the last call on the three

vars == <<store, label_index, last, nops, config_data, state, inst_last, self,
          contributed, saved_under, tasks, insts, decl, asm>>
concVars == <<tasks, insts>>
asmVars == <<decl, asm>>
storeVars == <<store, label_index, last, nops>>
instVars == <<config_data, state, inst_last, self, contributed, saved_under>>

----------------------------------------------------------------------------
(* Bounds *)

\* store calls in one behaviour
MaxOps == 3

\* fields in one contribution passed to add_configuration
MaxFields == 2

\* Instance calls in one behaviour that saves and restores
MaxInstOps == 4

\* put_by_labels calls started in one behaviour of concurrent tasks
MaxCalls == 2

\* store calls in a behaviour of SpecDeep
MaxDeepOps == 6

\* Instance calls in a behaviour of SpecResave
MaxResaveOps == 5

----------------------------------------------------------------------------
(* Generic helpers on finite maps (Python dicts) *)

EmptyMap == [x \in {} |-> {}]

MapPut(f, k, v) == [x \in (DOMAIN f) \cup {k} |-> IF x = k THEN v ELSE f[x]]

MapDel(f, k) == [x \in (DOMAIN f) \ {k} |-> f[x]]

\* dict.update(other)
MapUpdate(f, g) == [x \in (DOMAIN f) \cup (DOMAIN g) |-> IF x \in DOMAIN g THEN g[x] ELSE f[x]]

\* every way of listing the keys of a dict (the caller's insertion order)
Orders(S) == {o \in [1..Cardinality(S) -> S] : \A i, j \in 1..Cardinality(S) : i /= j => o[i] /= o[j]}

----------------------------------------------------------------------------
(* Store inputs *)

None == "None"

DefaultNamespace == "default"

\* the namespace argument of a call: omitted (None), or a name
NamespaceArgs == {None, "tenant"}

\* calls that leave the namespace argument out
DefaultOnly == {None}

\* primary keys: the empty string, a caller-chosen key, and uuid-shaped keys
PrimaryKeys == {"", "k1", "k2"}

\* the keys str(uuid4()) can return
UuidKeys == {"k1", "k2"}

LabelKeys == {"a", "b"}

LabelValues == {None, "x"}

\* Labels = Dict[str, LabelValue]
LabelSetsOver(K) == UNION {[D -> LabelValues] : D \in SUBSET K}

LabelSets == LabelSetsOver(LabelKeys)

\* the label sets used where two namespaces are exercised together
FewLabelSets == LabelSetsOver({"a"})

\* ValueDict payloads, opaque to the store
Values == {"V1", "V2"}

----------------------------------------------------------------------------
(* InMemoryStore: a namespace is the pair                                  *)
(*   recs = self.store[namespace], idx = self.label_index[namespace]       *)

NsState(recs, idx) == [recs |-> recs, idx |-> idx]

Rec(value, labels) == [value |-> value, labels |-> labels]

\* _check_namespace
CheckNamespace(st, ns) == ns \in DOMAIN st

\* _get_namespace_name
GetNamespaceName(nsarg) == IF nsarg /= None THEN nsarg ELSE DefaultNamespace

\* _check_primary_keys
CheckPrimaryKeys(s, pkeys) == \A pk \in pkeys : pk \in DOMAIN s.recs

\* The loop of _find_primary_keys_by_labels over labels.items() in the order
\* `order`.  `al` is matching_primary_keys: al.set = FALSE while it is None,
\* otherwise it IS the set object label_index[ns][al.k][al.v] (line 97 binds
\* the name to the index's own set, line 99 intersects that set in place).
RECURSIVE FindLoop(_, _, _, _, _)
FindLoop(idx, labels, order, i, al) ==
    IF i > Len(order) THEN [idx |-> idx, al |-> al]
    ELSE LET k == order[i]
             v == labels[k]
         IN IF k \notin DOMAIN idx THEN FindLoop(idx, labels, order, i + 1, al)
            ELSE IF v \notin DOMAIN idx[k] THEN FindLoop(idx, labels, order, i + 1, al)
            ELSE IF ~al.set
                 THEN FindLoop(idx, labels, order, i + 1, [set |-> TRUE, k |-> k, v |-> v])
                 ELSE FindLoop(
                        [idx EXCEPT ![al.k][al.v] = idx[al.k][al.v] \cap idx[k][v]],
                        labels, order, i + 1, al)

NoAlias == [set |-> FALSE, k |-> "", v |-> ""]

\* _find_primary_keys_by_labels: the keys returned, the index afterwards and
\* whether the returned set is an index set (al.set) or a fresh one
FindPrimaryKeysByLabels(s, labels, order) ==
    IF DOMAIN labels = {}
    THEN [keys |-> DOMAIN s.recs, idx |-> s.idx, al |-> NoAlias]
    ELSE LET r == FindLoop(s.idx, labels, order, 1, NoAlias)
         IN IF ~r.al.set
            THEN [keys |-> {}, idx |-> r.idx, al |-> NoAlias]
            ELSE [keys |-> r.idx[r.al.k][r.al.v], idx |-> r.idx, al |-> r.al]

\* primary_keys.pop() on a one-element set: empties the set object, which is
\* the index's own set when the find result aliases it
PopSingle(f) ==
    IF f.al.set THEN [f.idx EXCEPT ![f.al.k][f.al.v] = {}] ELSE f.idx

\* _ensure_single_match
EnsureSingleMatch(f) ==
    IF Cardinality(f.keys) > 1 THEN [err |-> "ConflictException", pk |-> "", idx |-> f.idx]
    ELSE IF Cardinality(f.keys) = 0 THEN [err |-> "NotFoundException", pk |-> "", idx |-> f.idx]
    ELSE [err |-> "ok", pk |-> CHOOSE p \in f.keys : TRUE, idx |-> PopSingle(f)]

\* _ensure_single_or_no_match; found = FALSE models the None result
EnsureSingleOrNoMatch(f) ==
    IF Cardinality(f.keys) > 1
    THEN [err |-> "ConflictException", found |-> FALSE, pk |-> "", idx |-> f.idx]
    ELSE IF Cardinality(f.keys) = 0
    THEN [err |-> "ok", found |-> FALSE, pk |-> "", idx |-> f.idx]
    ELSE [err |-> "ok", found |-> TRUE, pk |-> CHOOSE p \in f.keys : TRUE, idx |-> PopSingle(f)]

\* _add_new_label filling the index and leaving the other records' labels
AddNewLabelIndexOnly(s, label_key, primary_key) ==
    LET idx1 == IF label_key \notin DOMAIN s.idx
                THEN MapPut(s.idx, label_key, MapPut(EmptyMap, None, {}))
                ELSE s.idx
        others == (DOMAIN s.recs) \ {primary_key}
    IN NsState(s.recs, [idx1 EXCEPT ![label_key][None] = idx1[label_key][None] \cup others])

\* _add_new_label (called by _index_labels only when label_key is not indexed)
AddNewLabel(s, label_key, primary_key) ==
    LET idx1 == IF label_key \notin DOMAIN s.idx
                THEN MapPut(s.idx, label_key, MapPut(EmptyMap, None, {}))
                ELSE s.idx
        others == (DOMAIN s.recs) \ {primary_key}
    IN NsState(
        [pk \in DOMAIN s.recs |->
            IF pk \in others
            THEN [s.recs[pk] EXCEPT !.labels = MapPut(s.recs[pk].labels, label_key, None)]
            ELSE s.recs[pk]],
        [idx1 EXCEPT ![label_key][None] = idx1[label_key][None] \cup others])

\* one iteration of the loop of _index_labels
IndexOneLabel(s, primary_key, label_key, label_value) ==
    LET s1 == IF label_key \notin DOMAIN s.idx
              THEN AddNewLabel(s, label_key, primary_key)
              ELSE s
        byval == IF label_value \notin DOMAIN s1.idx[label_key]
                 THEN MapPut(s1.idx[label_key], label_value, {})
                 ELSE s1.idx[label_key]
    IN NsState(s1.recs,
               [s1.idx EXCEPT ![label_key] =
                    [byval EXCEPT ![label_value] = byval[label_value] \cup {primary_key}]])

RECURSIVE IndexLoop(_, _, _, _)
IndexLoop(s, primary_key, labels, todo) ==
    IF todo = {} THEN s
    ELSE LET k == CHOOSE x \in todo : TRUE
         IN IndexLoop(IndexOneLabel(s, primary_key, k, labels[k]), primary_key, labels, todo \ {k})

\* _index_labels (each iteration touches only its own label key, so the
\* iteration order does not change the result)
IndexLabels(s, primary_key, labels) == IndexLoop(s, primary_key, labels, DOMAIN labels)

\* one iteration of the loop of _deindex_labels
DeindexOneLabel(idx, primary_key, label_key, label_value) ==
    IF label_key \in DOMAIN idx /\ label_value \in DOMAIN idx[label_key]
    THEN LET rest == idx[label_key][label_value] \ {primary_key}
             byval == IF rest = {}
                      THEN MapDel(idx[label_key], label_value)
                      ELSE [idx[label_key] EXCEPT ![label_value] = rest]
         IN IF DOMAIN byval = {}
            THEN MapDel(idx, label_key)
            ELSE [idx EXCEPT ![label_key] = byval]
    ELSE idx

RECURSIVE DeindexLoop(_, _, _, _)
DeindexLoop(idx, primary_key, labels, todo) ==
    IF todo = {} THEN idx
    ELSE LET k == CHOOSE x \in todo : TRUE
         IN DeindexLoop(DeindexOneLabel(idx, primary_key, k, labels[k]), primary_key, labels, todo \ {k})

\* _deindex_labels
DeindexLabels(idx, primary_key, labels) == DeindexLoop(idx, primary_key, labels, DOMAIN labels)

\* _delete leaving the index entries of the deleted record
DeleteKeepsIndex(s, primary_key) == NsState(MapDel(s.recs, primary_key), s.idx)

\* _delete
Delete(s, primary_key) ==
    NsState(MapDel(s.recs, primary_key),
            DeindexLabels(s.idx, primary_key, s.recs[primary_key].labels))

\* _update_existing_pkey updating the stored labels instead of replacing them
UpdateExistingPkeyKeepsLabels(s, primary_key, value, labels) ==
    LET current_labels == s.recs[primary_key].labels
        idx1 == DeindexLabels(s.idx, primary_key, current_labels)
        recs1 == MapPut(s.recs, primary_key, Rec(value, MapUpdate(current_labels, labels)))
    IN IndexLabels(NsState(recs1, idx1), primary_key, labels)

\* _update_existing_pkey keeping the value the record already has
UpdateExistingPkeyFirstWriteWins(s, primary_key, value, labels) ==
    LET current_labels == s.recs[primary_key].labels
        idx1 == DeindexLabels(s.idx, primary_key, current_labels)
        recs1 == MapPut(s.recs, primary_key, Rec(s.recs[primary_key].value, labels))
    IN IndexLabels(NsState(recs1, idx1), primary_key, labels)

\* _update_existing_pkey
UpdateExistingPkey(s, primary_key, value, labels) ==
    LET current_labels == s.recs[primary_key].labels
        idx1 == DeindexLabels(s.idx, primary_key, current_labels)
        recs1 == MapPut(s.recs, primary_key, Rec(value, labels))
    IN IndexLabels(NsState(recs1, idx1), primary_key, labels)

\* _insert_new_pkey (four arguments): the insert of put_by_primary_key
InsertNewPkey(s, primary_key, value, labels) ==
    IndexLabels(NsState(MapPut(s.recs, primary_key, Rec(value, labels)), s.idx),
                primary_key, labels)

\* _create_pkey storing the record without indexing its labels
CreatePkeySkipsIndex(s, pkey, value, labels) ==
    NsState(MapPut(s.recs, pkey, Rec(value, labels)), s.idx)

\* _create_pkey after pkey = str(uuid4()) passed the collision check
CreatePkey(s, pkey, value, labels) ==
    IndexLabels(NsState(MapPut(s.recs, pkey, Rec(value, labels)), s.idx), pkey, labels)

\* _create_namespace rebinding self.store and self.label_index to new dicts
CreateNamespaceDropsOthers(st, li, ns) ==
    [store |-> MapPut(EmptyMap, ns, EmptyMap), label_index |-> MapPut(EmptyMap, ns, EmptyMap)]

\* _create_namespace
CreateNamespace(st, li, ns) ==
    [store |-> MapPut(st, ns, EmptyMap), label_index |-> MapPut(li, ns, EmptyMap)]

\* _ensure_namespace_exists creating the namespace whether or not it exists
EnsureNamespaceExistsAlwaysCreates(st, li, ns) == CreateNamespace(st, li, ns)

\* _ensure_namespace_exists
EnsureNamespaceExists(st, li, ns) ==
    IF CheckNamespace(st, ns) THEN [store |-> st, label_index |-> li]
    ELSE CreateNamespace(st, li, ns)

\* self.store[namespace] and self.label_index[namespace] of an existing namespace
NsOf(st, li, ns) == NsState(st[ns], li[ns])

\* a search result entry {"primary_key": pk, **values[pk]}
SearchResult(s, pk) ==
    [primary_key |-> pk, value |-> s.recs[pk].value, labels |-> s.recs[pk].labels]

----------------------------------------------------------------------------
(* Store: the public operations, each as the outcome of one whole call on  *)
(* the store (st, li): the store afterwards, the error raised ("ok" when   *)
(* the call returns), the returned primary key and the returned records.   *)

Outcome(st, li, ns, s, err, why, ret, res) ==
    [store |-> MapPut(st, ns, s.recs), label_index |-> MapPut(li, ns, s.idx),
     err |-> err, why |-> why, ret |-> ret, res |-> res]

\* _get_namespace raising NotFoundException("Namespace ... does not exist")
NoNamespace(st, li) ==
    [store |-> st, label_index |-> li,
     err |-> "NotFoundException", why |-> "namespace", ret |-> "", res |-> {}]

\* put_by_primary_key; _ensure_namespace_exists creates the namespace first
PutByPrimaryKeyCall(st, li, value, labels, primary_key, nsarg, throw_on_dne) ==
    LET ns == GetNamespaceName(nsarg)
        e == EnsureNamespaceExists(st, li, ns)
        s == NsOf(e.store, e.label_index, ns)
    IN IF CheckPrimaryKeys(s, {primary_key})
       THEN Outcome(e.store, e.label_index, ns,
                    UpdateExistingPkey(s, primary_key, value, labels), "ok", "", primary_key, {})
       ELSE IF throw_on_dne
       THEN Outcome(e.store, e.label_index, ns, s, "NotFoundException", "record", "", {})
       ELSE Outcome(e.store, e.label_index, ns,
                    InsertNewPkey(s, primary_key, value, labels), "ok", "", primary_key, {})

\* put_by_labels; `order` is the iteration order of labels.items(), `uuid`
\* the value of str(uuid4()).  `if existing_key:` is false for None and for
\* the empty string.
PutByLabelsCall(st, li, value, labels, order, nsarg, uuid) ==
    LET ns == GetNamespaceName(nsarg)
        c == EnsureNamespaceExists(st, li, ns)
        s == NsOf(c.store, c.label_index, ns)
        e == EnsureSingleOrNoMatch(FindPrimaryKeysByLabels(s, labels, order))
        s1 == NsState(s.recs, e.idx)
    IN IF e.err /= "ok"
       THEN Outcome(c.store, c.label_index, ns, s1, "ConflictException", "labels", "", {})
       ELSE IF e.found /\ e.pk /= ""
       THEN Outcome(c.store, c.label_index, ns,
                    UpdateExistingPkey(s1, e.pk, value, labels), "ok", "", e.pk, {})
       ELSE IF CheckPrimaryKeys(s1, {uuid})
       THEN Outcome(c.store, c.label_index, ns, s1, "RuntimeError", "uuid", "", {})
       ELSE Outcome(c.store, c.label_index, ns,
                    CreatePkey(s1, uuid, value, labels), "ok", "", uuid, {})

\* get_by_primary_key; result[primary_key] of a missing key is a KeyError
\* raised by _get_values_of_primary_keys
GetByPrimaryKeyCall(st, li, primary_key, nsarg) ==
    LET ns == GetNamespaceName(nsarg)
        s == NsOf(st, li, ns)
    IN IF ~CheckNamespace(st, ns) THEN NoNamespace(st, li)
       ELSE IF primary_key \notin DOMAIN s.recs
       THEN Outcome(st, li, ns, s, "KeyError", "record", "", {})
       ELSE Outcome(st, li, ns, s, "ok", "", primary_key, {SearchResult(s, primary_key)})

\* get_by_labels
GetByLabelsCall(st, li, labels, order, nsarg) ==
    LET ns == GetNamespaceName(nsarg)
        s == NsOf(st, li, ns)
        e == EnsureSingleMatch(FindPrimaryKeysByLabels(s, labels, order))
        s1 == NsState(s.recs, e.idx)
    IN IF ~CheckNamespace(st, ns) THEN NoNamespace(st, li)
       ELSE IF e.err /= "ok" THEN Outcome(st, li, ns, s1, e.err, "labels", "", {})
       ELSE IF e.pk \notin DOMAIN s1.recs
       THEN Outcome(st, li, ns, s1, "KeyError", "record", "", {})
       ELSE Outcome(st, li, ns, s1, "ok", "", e.pk, {SearchResult(s1, e.pk)})

\* search
SearchCall(st, li, partial_labels, order, nsarg) ==
    LET ns == GetNamespaceName(nsarg)
        s == NsOf(st, li, ns)
        f == FindPrimaryKeysByLabels(s, partial_labels, order)
        s1 == NsState(s.recs, f.idx)
    IN IF ~CheckNamespace(st, ns) THEN NoNamespace(st, li)
       ELSE IF ~CheckPrimaryKeys(s1, f.keys)
       THEN Outcome(st, li, ns, s1, "ConflictException", "messed up", "", {})
       ELSE Outcome(st, li, ns, s1, "ok", "", "", {SearchResult(s1, pk) : pk \in f.keys})

\* delete_by_primary_key
DeleteByPrimaryKeyCall(st, li, primary_key, nsarg) ==
    LET ns == GetNamespaceName(nsarg)
        s == NsOf(st, li, ns)
    IN IF ~CheckNamespace(st, ns) THEN NoNamespace(st, li)
       ELSE IF ~CheckPrimaryKeys(s, {primary_key})
       THEN Outcome(st, li, ns, s, "ok", "", "", {})
       ELSE Outcome(st, li, ns, Delete(s, primary_key), "ok", "", "", {})

----------------------------------------------------------------------------
(* Instance (core/instance.py): the configuration schema.  The fields are  *)
(* those of the integration of tests/api.py (CustomSlackConfig and         *)
(* CustomSlackConfigV2 on SlackIntegrationConfig).                         *)

Str(n) == [kind |-> "str", val |-> n]

IntV(n) == [kind |-> "int", val |-> n]

Suppliers == {"admin", "user", "callback"}

\* config_class.__pydantic_fields__
Fields == {"api_key", "default_channel", "rate_limit", "refresh_token"}

\* json_schema_extra["supplier"] of each field (_get_field_supplier)
GetFieldSupplier(f) ==
    CASE f = "api_key" -> "admin"
      [] f = "default_channel" -> "user"
      [] f = "rate_limit" -> "user"
      [] f = "refresh_token" -> "callback"

\* _is_field_required: Field(...) against Field(default=...)
IsFieldRequired(f) == f \in {"api_key", "default_channel"}

\* pydantic's validation of one value against the field's annotation and
\* constraints: str fields take strings, rate_limit is an int with gt=0
FieldAccepts(f, v) ==
    IF f = "rate_limit" THEN v.kind = "int" /\ v.val > 0 ELSE v.kind = "str"

\* the values a caller may send under each name; "bogus" is in no schema
FieldNames == Fields \cup {"bogus"}

Candidates(f) ==
    CASE f = "api_key" -> {Str(1), Str(2)}
      [] f = "default_channel" -> {Str(1), IntV(5)}
      [] f = "rate_limit" -> {IntV(5), IntV(0)}
      [] f = "refresh_token" -> {Str(1)}
      [] f = "bogus" -> {Str(1)}

ConfigDicts ==
    UNION {{d \in [D -> UNION {Candidates(f) : f \in D}] : \A f \in D : d[f] \in Candidates(f)}
           : D \in {E \in SUBSET FieldNames : Cardinality(E) <= MaxFields}}

\* contributions of at most one field
FewConfigDicts == {d \in ConfigDicts : Cardinality(DOMAIN d) <= 1}

\* Integration.supplied_config of the registered integration
SuppliedConfig == MapPut(EmptyMap, "api_key", Str(1))

\* the same integration registered again with another admin configuration
SuppliedConfigV2 == MapPut(EmptyMap, "api_key", Str(2))

SuppliedConfigs == {SuppliedConfig, SuppliedConfigV2}

\* Optional[Labels]: labels=None is the empty set, labels=l is {l}
NoLabels == {}

OptionalLabels == {NoLabels} \cup {{l} : l \in FewLabelSets}

\* Optional[str] primary keys an Instance is given
OptionalPrimaryKeys == {None, "k1"}

\* get_model(supplier): the fields of the dynamic model
GetModel(supplier) == {f \in Fields : GetFieldSupplier(f) = supplier}

\* model(**data) for a model made by create_model without a config: every
\* declared field must validate or have a default, and names the model does
\* not declare are ignored (pydantic's default extra="ignore")
ModelAccepts(fields, data) ==
    \A f \in fields :
        IF f \in DOMAIN data THEN FieldAccepts(f, data[f]) ELSE ~IsFieldRequired(f)

\* build_model: None (FALSE) when config_class(**_config_data) raises
BuildModel(cd) == ModelAccepts(Fields, cd)

\* _update_state deciding by the presence of the required fields
UpdateStateByPresence(cd) ==
    IF \A f \in Fields : IsFieldRequired(f) => f \in DOMAIN cd THEN "healthy" ELSE "pending"

\* _update_state
UpdateState(cd) == IF BuildModel(cd) THEN "healthy" ELSE "pending"

\* the sensitivity each field declares (_get_field_sensitivity): one of
\* "none", "low", "high", "none" when the field declares nothing
GetFieldSensitivity(f) ==
    CASE f = "api_key" -> "high"
      [] f = "default_channel" -> "none"
      [] f = "rate_limit" -> "low"
      [] f = "refresh_token" -> "high"

\* serialize_config that ignores redact
SerializeConfigNeverRedacts(cd, supplier, redact) ==
    [f \in GetModel(supplier) \cap DOMAIN cd |-> cd[f]]

\* serialize_config that walks the accumulated data instead of the model
SerializeConfigAllFields(cd, supplier, redact) ==
    LET keep == {f \in DOMAIN cd :
                    ~(redact /\ f \in Fields /\ GetFieldSensitivity(f) = "high")}
    IN [f \in keep |-> cd[f]]

\* serialize_config: over the fields of the supplier's model, skipping the
\* high ones when redact, taking those present in _config_data
SerializeConfig(cd, supplier, redact) ==
    LET keep == {f \in GetModel(supplier) :
                    /\ ~(redact /\ GetFieldSensitivity(f) = "high")
                    /\ f \in DOMAIN cd}
    IN [f \in keep |-> cd[f]]

\* add_configuration merging before it validates
AddConfigurationMergesFirst(cd, st, supplier, data) ==
    IF ~ModelAccepts(GetModel(supplier), data)
    THEN [config_data |-> MapUpdate(cd, data), state |-> st, err |-> "ValidationError"]
    ELSE [config_data |-> MapUpdate(cd, data),
          state |-> UpdateState(MapUpdate(cd, data)), err |-> "ok"]

\* add_configuration: validate, then merge, then recompute the state
AddConfigurationCall(cd, st, supplier, data) ==
    IF ~ModelAccepts(GetModel(supplier), data)
    THEN [config_data |-> cd, state |-> st, err |-> "ValidationError"]
    ELSE [config_data |-> MapUpdate(cd, data),
          state |-> UpdateState(MapUpdate(cd, data)), err |-> "ok"]

add_configuration ==
    \E supplier \in Suppliers, data \in ConfigDicts :
        LET o == AddConfigurationCall(config_data, state, supplier, data)
        IN /\ config_data' = o.config_data
           /\ state' = o.state
           /\ inst_last' = [op |-> "add_configuration", supplier |-> supplier,
                            data |-> data, err |-> o.err]
           /\ contributed' = IF o.err = "ok" THEN contributed \cup {supplier}
                                             ELSE contributed
           /\ UNCHANGED <<self, saved_under, storeVars, concVars, asmVars>>

\* serialize_config(supplier, redact): reads only; the answer is in data
serialize_config ==
    \E supplier \in Suppliers, redact \in BOOLEAN :
        /\ inst_last' = [op |-> "serialize_config", supplier |-> supplier,
                         data |-> SerializeConfig(config_data, supplier, redact),
                         err |-> "ok", redact |-> redact]
        /\ UNCHANGED <<config_data, state, self, contributed, saved_under, storeVars,
                       concVars, asmVars>>

\* Instance.__init__: _config_data = {}, _state = "pending", then
\* add_configuration("admin", supplied_config)
InstanceInit ==
    LET o == AddConfigurationCall(EmptyMap, "pending", "admin", SuppliedConfig)
    IN /\ config_data = o.config_data
       /\ state = o.state
       /\ inst_last = [op |-> "init", supplier |-> "admin",
                       data |-> SuppliedConfig, err |-> o.err]
       /\ self = [integration |-> SuppliedConfig, namespace |-> None,
                  primary_key |-> "k1", labels |-> NoLabels, temporary |-> FALSE]
       /\ contributed = {"admin"}
       /\ saved_under = EmptyMap

----------------------------------------------------------------------------
(* Instance: construction, save and restore.  An Instance object is the   *)
(* record [config_data, state, self, contributed]; err is what the call    *)
(* that made it raised.  save and the restore methods pass the             *)
(* integration's guid to the store as a keyword the store does not take    *)
(* part in; the model performs the store call with the other arguments.    *)

\* Instance.__init__ taking the admin configuration of the first registration
NewInstanceFirstRegistration(integration, namespace, primary_key, labels, temporary) ==
    LET slf == [integration |-> integration, namespace |-> namespace,
                primary_key |-> primary_key, labels |-> labels, temporary |-> temporary]
        o == AddConfigurationCall(EmptyMap, "pending", "admin", SuppliedConfig)
    IN IF primary_key = None /\ labels = NoLabels /\ ~temporary
       THEN [err |-> "IlpasValueError", config_data |-> EmptyMap, state |-> "pending",
             self |-> slf, contributed |-> {}]
       ELSE [err |-> o.err, config_data |-> o.config_data, state |-> o.state,
             self |-> slf, contributed |-> IF o.err = "ok" THEN {"admin"} ELSE {}]

\* Instance.__init__
NewInstance(integration, namespace, primary_key, labels, temporary) ==
    LET slf == [integration |-> integration, namespace |-> namespace,
                primary_key |-> primary_key, labels |-> labels, temporary |-> temporary]
        o == AddConfigurationCall(EmptyMap, "pending", "admin", integration)
    IN IF primary_key = None /\ labels = NoLabels /\ ~temporary
       THEN [err |-> "IlpasValueError", config_data |-> EmptyMap, state |-> "pending",
             self |-> slf, contributed |-> {}]
       ELSE [err |-> o.err, config_data |-> o.config_data, state |-> o.state,
             self |-> slf, contributed |-> IF o.err = "ok" THEN {"admin"} ELSE {}]

\* value.items(): the suppliers of a stored value in insertion order
ItemsOrder(value) ==
    LET In(sup) == sup \in DOMAIN value
    IN SelectSeq(<<"user", "callback", "admin">>, In)

\* for supplier, config in value.items(): result.add_configuration(...)
RECURSIVE Replay(_, _, _)
Replay(obj, value, suppliers) ==
    IF suppliers = << >> \/ obj.err /= "ok" THEN obj
    ELSE LET o == AddConfigurationCall(obj.config_data, obj.state,
                                       Head(suppliers), value[Head(suppliers)])
         IN Replay([err |-> o.err, config_data |-> o.config_data, state |-> o.state,
                    self |-> obj.self,
                    contributed |-> IF o.err = "ok"
                                    THEN obj.contributed \cup {Head(suppliers)}
                                    ELSE obj.contributed],
                   value, Tail(suppliers))

\* what a restore answers: the store after the read, and the Instance
Restored(g, obj) ==
    [store |-> g.store, label_index |-> g.label_index, err |-> obj.err, obj |-> obj]

\* restore_by_primary_key
RestoreByPrimaryKeyCall(st, li, integration, primary_key, nsarg) ==
    LET g == GetByPrimaryKeyCall(st, li, primary_key, nsarg)
        data == CHOOSE d \in g.res : TRUE
        n == NewInstance(integration, nsarg, primary_key, NoLabels, FALSE)
        result == [n EXCEPT !.self.labels = {data.labels}]
    IN IF g.err /= "ok" THEN Restored(g, [n EXCEPT !.err = g.err])
       ELSE IF n.err /= "ok" THEN Restored(g, n)
       ELSE Restored(g, Replay(result, data.value, ItemsOrder(data.value)))

\* restore_by_labels
RestoreByLabelsCall(st, li, integration, labels, order, nsarg) ==
    LET g == GetByLabelsCall(st, li, labels, order, nsarg)
        data == CHOOSE d \in g.res : TRUE
        n == NewInstance(integration, nsarg, None, {labels}, FALSE)
        result == [n EXCEPT !.self.primary_key = data.primary_key]
    IN IF g.err /= "ok" THEN Restored(g, [n EXCEPT !.err = g.err])
       ELSE IF n.err /= "ok" THEN Restored(g, n)
       ELSE Restored(g, Replay(result, data.value, ItemsOrder(data.value)))

\* the value save writes, serialized with redact=True
SaveValueRedacted(cd) ==
    [sup \in {"user", "callback"} |-> SerializeConfig(cd, sup, TRUE)]

\* the value save writes, with the admin configuration next to the others
SaveValueWithAdmin(cd) ==
    [sup \in Suppliers |-> SerializeConfig(cd, sup, FALSE)]

\* the value save writes: {"user": ..., "callback": ...}, unredacted
SaveValue(cd) ==
    [sup \in {"user", "callback"} |-> SerializeConfig(cd, sup, FALSE)]

\* save without the check of self.temporary
SaveCallIgnoresTemporary(st, li, slf, cd, order, uuid) ==
    IF slf.primary_key /= None
    THEN LET o == PutByPrimaryKeyCall(st, li, SaveValue(cd),
                     IF slf.labels /= NoLabels THEN CHOOSE l \in slf.labels : TRUE
                                               ELSE EmptyMap,
                     slf.primary_key, slf.namespace, FALSE)
         IN [store |-> o.store, label_index |-> o.label_index, err |-> o.err, ret |-> o.ret]
    ELSE IF slf.labels /= NoLabels
    THEN LET o == PutByLabelsCall(st, li, SaveValue(cd), CHOOSE l \in slf.labels : TRUE,
                                  order, slf.namespace, uuid)
         IN [store |-> o.store, label_index |-> o.label_index, err |-> o.err, ret |-> o.ret]
    ELSE [store |-> st, label_index |-> li, err |-> "IlpasValueError", ret |-> ""]

\* save; `order` and `uuid` as in put_by_labels
SaveCall(st, li, slf, cd, order, uuid) ==
    IF slf.temporary
    THEN [store |-> st, label_index |-> li, err |-> "IlpasValueError", ret |-> ""]
    ELSE IF slf.primary_key /= None
    THEN LET o == PutByPrimaryKeyCall(st, li, SaveValue(cd),
                     IF slf.labels /= NoLabels THEN CHOOSE l \in slf.labels : TRUE
                                               ELSE EmptyMap,
                     slf.primary_key, slf.namespace, FALSE)
         IN [store |-> o.store, label_index |-> o.label_index, err |-> o.err, ret |-> o.ret]
    ELSE IF slf.labels /= NoLabels
    THEN LET o == PutByLabelsCall(st, li, SaveValue(cd), CHOOSE l \in slf.labels : TRUE,
                                  order, slf.namespace, uuid)
         IN [store |-> o.store, label_index |-> o.label_index, err |-> o.err, ret |-> o.ret]
    ELSE [store |-> st, label_index |-> li, err |-> "IlpasValueError", ret |-> ""]

\* one Instance call of a behaviour that saves and restores
InstCall(op, err, obj, st, li, su) ==
    /\ nops < MaxInstOps
    /\ nops' = nops + 1
    /\ inst_last' = [op |-> op, supplier |-> "", data |-> EmptyMap, err |-> err]
    /\ config_data' = obj.config_data
    /\ state' = obj.state
    /\ self' = obj.self
    /\ contributed' = obj.contributed
    /\ store' = st
    /\ label_index' = li
    /\ saved_under' = su
    /\ UNCHANGED <<last, concVars, asmVars>>

\* the Instance the behaviour holds
Current == [err |-> "ok", config_data |-> config_data, state |-> state,
            self |-> self, contributed |-> contributed]

\* Instance(integration, namespace=, primary_key=, labels=, temporary=);
\* a constructor that raises leaves the behaviour with the Instance it had
new_instance ==
    \E integration \in SuppliedConfigs, primary_key \in OptionalPrimaryKeys,
       labels \in OptionalLabels, temporary \in BOOLEAN :
        LET n == NewInstance(integration, None, primary_key, labels, temporary)
        IN InstCall("new_instance", n.err, IF n.err = "ok" THEN n ELSE Current,
                    store, label_index, saved_under)

\* add_configuration within a behaviour that saves and restores
contribute(CD) ==
    \E supplier \in Suppliers, data \in CD :
        LET o == AddConfigurationCall(config_data, state, supplier, data)
        IN /\ InstCall("add_configuration", o.err,
                       [Current EXCEPT !.config_data = o.config_data, !.state = o.state,
                                       !.contributed = IF o.err = "ok" THEN @ \cup {supplier} ELSE @],
                       store, label_index, saved_under)

save ==
    \E uuid \in UuidKeys :
        \E order \in Orders(IF self.labels = NoLabels THEN {}
                             ELSE DOMAIN (CHOOSE l \in self.labels : TRUE)) :
            LET o == SaveCall(store, label_index, self, config_data, order, uuid)
            IN InstCall("save", o.err, Current, o.store, o.label_index,
                        IF o.err = "ok"
                        THEN MapPut(saved_under, <<GetNamespaceName(self.namespace), o.ret>>,
                                    self.integration)
                        ELSE saved_under)

\* a restore that raises returns no Instance
restore_by_primary_key ==
    \E integration \in SuppliedConfigs, primary_key \in UuidKeys :
        LET o == RestoreByPrimaryKeyCall(store, label_index, integration, primary_key, None)
        IN InstCall("restore_by_primary_key", o.err, IF o.err = "ok" THEN o.obj ELSE Current,
                    o.store, o.label_index, saved_under)

restore_by_labels ==
    \E integration \in SuppliedConfigs, labels \in FewLabelSets :
        \E order \in Orders(DOMAIN labels) :
            LET o == RestoreByLabelsCall(store, label_index, integration, labels, order, None)
            IN InstCall("restore_by_labels", o.err, IF o.err = "ok" THEN o.obj ELSE Current,
                        o.store, o.label_index, saved_under)

----------------------------------------------------------------------------
(* Store: the actions.  `last` records the call and what it answered.      *)

Call(op, nsarg, primary_key, labels, value, o) ==
    /\ nops < MaxOps
    /\ nops' = nops + 1
    /\ store' = o.store
    /\ label_index' = o.label_index
    /\ last' = [op |-> op, ns |-> GetNamespaceName(nsarg), pk |-> primary_key,
                labels |-> labels, value |-> value,
                err |-> o.err, why |-> o.why, ret |-> o.ret, res |-> o.res]
    /\ UNCHANGED <<instVars, concVars, asmVars>>

put_by_primary_key(NS, LS) ==
    \E value \in Values, labels \in LS, primary_key \in PrimaryKeys,
       nsarg \in NS, throw_on_dne \in BOOLEAN :
        Call("put_by_primary_key", nsarg, primary_key, labels, value,
             PutByPrimaryKeyCall(store, label_index, value, labels, primary_key, nsarg, throw_on_dne))

put_by_labels(NS, LS) ==
    \E value \in Values, labels \in LS, nsarg \in NS, uuid \in UuidKeys :
        \E order \in Orders(DOMAIN labels) :
            Call("put_by_labels", nsarg, "", labels, value,
                 PutByLabelsCall(store, label_index, value, labels, order, nsarg, uuid))

get_by_primary_key(NS) ==
    \E primary_key \in PrimaryKeys, nsarg \in NS :
        Call("get_by_primary_key", nsarg, primary_key, EmptyMap, "",
             GetByPrimaryKeyCall(store, label_index, primary_key, nsarg))

get_by_labels(NS, LS) ==
    \E labels \in LS, nsarg \in NS :
        \E order \in Orders(DOMAIN labels) :
            Call("get_by_labels", nsarg, "", labels, "",
                 GetByLabelsCall(store, label_index, labels, order, nsarg))

search(NS, LS) ==
    \E partial_labels \in LS, nsarg \in NS :
        \E order \in Orders(DOMAIN partial_labels) :
            Call("search", nsarg, "", partial_labels, "",
                 SearchCall(store, label_index, partial_labels, order, nsarg))

delete_by_primary_key(NS) ==
    \E primary_key \in PrimaryKeys, nsarg \in NS :
        Call("delete_by_primary_key", nsarg, primary_key, EmptyMap, "",
             DeleteByPrimaryKeyCall(store, label_index, primary_key, nsarg))

\* longer histories on fewer keys: one namespace, one label key, two
\* caller-chosen primary keys
DeepKeys == {"k1", "k2"}

DeepCall(op, primary_key, labels, value, o) ==
    /\ nops < MaxDeepOps
    /\ nops' = nops + 1
    /\ store' = o.store
    /\ label_index' = o.label_index
    /\ last' = [op |-> op, ns |-> DefaultNamespace, pk |-> primary_key,
                labels |-> labels, value |-> value,
                err |-> o.err, why |-> o.why, ret |-> o.ret, res |-> o.res]
    /\ UNCHANGED <<instVars, concVars, asmVars>>

deep_put_by_primary_key ==
    \E value \in Values, labels \in FewLabelSets, primary_key \in DeepKeys :
        DeepCall("put_by_primary_key", primary_key, labels, value,
                 PutByPrimaryKeyCall(store, label_index, value, labels, primary_key, None, FALSE))

deep_get_by_labels ==
    \E labels \in FewLabelSets : \E order \in Orders(DOMAIN labels) :
        DeepCall("get_by_labels", "", labels, "",
                 GetByLabelsCall(store, label_index, labels, order, None))

deep_put_by_labels ==
    \E value \in Values, labels \in FewLabelSets, uuid \in DeepKeys :
        \E order \in Orders(DOMAIN labels) :
            DeepCall("put_by_labels", "", labels, value,
                     PutByLabelsCall(store, label_index, value, labels, order, None, uuid))

deep_search ==
    \E partial_labels \in FewLabelSets : \E order \in Orders(DOMAIN partial_labels) :
        DeepCall("search", "", partial_labels, "",
                 SearchCall(store, label_index, partial_labels, order, None))

deep_delete_by_primary_key ==
    \E primary_key \in DeepKeys :
        DeepCall("delete_by_primary_key", primary_key, EmptyMap, "",
                 DeleteByPrimaryKeyCall(store, label_index, primary_key, None))

NoCall == [op |-> "init", ns |-> "", pk |-> "", labels |-> EmptyMap, value |-> "",
           err |-> "ok", why |-> "", ret |-> "", res |-> {}]

\* InMemoryStore.__init__: no namespace, no record, no index
StoreInit ==
    /\ store = EmptyMap
    /\ label_index = EmptyMap
    /\ last = NoCall
    /\ nops = 0

----------------------------------------------------------------------------
(* Store: concurrent put_by_labels.  Store.put_by_labels awaits the backend *)
(* three times: _ensure_namespace_exists, _find_primary_keys_by_labels and  *)
(* the write; another call may run between two awaits.  A task keeps the    *)
(* locals of its call (existing_key) from one step to the next.             *)

Tasks == {1, 2}

Idle == [pc |-> "idle", labels |-> EmptyMap, order |-> << >>, value |-> "",
         found |-> FALSE, existing_key |-> "", err |-> "ok", ret |-> ""]

\* the call starts: namespace = await self._ensure_namespace_exists(namespace)
put_by_labels_ensure(t) ==
    \E value \in Values, labels \in LabelSets :
        \E order \in Orders(DOMAIN labels) :
            LET c == EnsureNamespaceExists(store, label_index, DefaultNamespace)
            IN /\ tasks[t].pc \in {"idle", "done"}
               /\ nops < MaxCalls
               /\ nops' = nops + 1
               /\ store' = c.store
               /\ label_index' = c.label_index
               /\ tasks' = [tasks EXCEPT ![t] =
                               [Idle EXCEPT !.pc = "ensured", !.labels = labels,
                                            !.order = order, !.value = value]]
               /\ UNCHANGED <<last, instVars, insts, asmVars>>

\* existing_key = self._ensure_single_or_no_match(await self._find_...(...))
put_by_labels_find(t) ==
    LET s == NsOf(store, label_index, DefaultNamespace)
        e == EnsureSingleOrNoMatch(FindPrimaryKeysByLabels(s, tasks[t].labels, tasks[t].order))
    IN /\ tasks[t].pc = "ensured"
       /\ store' = store
       /\ label_index' = MapPut(label_index, DefaultNamespace, e.idx)
       /\ tasks' = [tasks EXCEPT ![t] =
                       IF e.err /= "ok"
                       THEN [@ EXCEPT !.pc = "done", !.err = "ConflictException"]
                       ELSE [@ EXCEPT !.pc = "found", !.found = e.found,
                                      !.existing_key = IF e.found THEN e.pk ELSE ""]]
       /\ UNCHANGED <<last, nops, instVars, insts, asmVars>>

\* if existing_key: _update_existing_pkey(...) else: _insert_new_pkey(...)
put_by_labels_write(t) ==
    \E uuid \in UuidKeys :
        LET s == NsOf(store, label_index, DefaultNamespace)
            update == tasks[t].found /\ tasks[t].existing_key /= ""
            clash == ~update /\ CheckPrimaryKeys(s, {uuid})
            s1 == IF update
                  THEN UpdateExistingPkey(s, tasks[t].existing_key, tasks[t].value, tasks[t].labels)
                  ELSE IF clash THEN s
                  ELSE CreatePkey(s, uuid, tasks[t].value, tasks[t].labels)
        IN /\ tasks[t].pc = "found"
           /\ store' = MapPut(store, DefaultNamespace, s1.recs)
           /\ label_index' = MapPut(label_index, DefaultNamespace, s1.idx)
           /\ tasks' = [tasks EXCEPT ![t] =
                           [@ EXCEPT !.pc = "done",
                                     !.err = IF clash THEN "RuntimeError" ELSE "ok",
                                     !.ret = IF update THEN tasks[t].existing_key
                                             ELSE IF clash THEN "" ELSE uuid]]
           /\ UNCHANGED <<last, nops, instVars, insts, asmVars>>

----------------------------------------------------------------------------
(* Instance: two Instances of one record alive at once, each held by its   *)
(* own request handler.                                                     *)

Holders == {1, 2}

\* what the two holders contribute
TwoContributions ==
    {<<"user", MapPut(EmptyMap, "default_channel", Str(1))>>,
     <<"user", MapPut(MapPut(EmptyMap, "default_channel", Str(1)), "rate_limit", IntV(5))>>,
     <<"callback", MapPut(EmptyMap, "refresh_token", Str(1))>>}

\* an Instance with what is remembered about it
Held(obj, base, saved) ==
    [err |-> obj.err, config_data |-> obj.config_data, state |-> obj.state,
     self |-> obj.self, contributed |-> obj.contributed, base |-> base, saved |-> saved]

TwoCall(op, i, err, held, st, li) ==
    /\ inst_last' = [op |-> op, supplier |-> "", data |-> EmptyMap, err |-> err, who |-> i]
    /\ insts' = [insts EXCEPT ![i] = held]
    /\ store' = st
    /\ label_index' = li
    /\ UNCHANGED <<last, nops, config_data, state, self, contributed, saved_under, tasks,
                   asmVars>>

\* holder i restores the record "k1"; a restore that raises leaves i with
\* the Instance it held
restore_held(i) ==
    LET o == RestoreByPrimaryKeyCall(store, label_index, SuppliedConfig, "k1", None)
        g == GetByPrimaryKeyCall(store, label_index, "k1", None)
    IN TwoCall("restore_by_primary_key", i, o.err,
               IF o.err = "ok"
               THEN Held(o.obj, {(CHOOSE d \in g.res : TRUE).value}, FALSE)
               ELSE insts[i],
               o.store, o.label_index)

contribute_held(i) ==
    \E c \in TwoContributions :
        LET o == AddConfigurationCall(insts[i].config_data, insts[i].state, c[1], c[2])
        IN TwoCall("add_configuration", i, o.err,
                   [insts[i] EXCEPT !.config_data = o.config_data, !.state = o.state,
                                    !.contributed = IF o.err = "ok" THEN @ \cup {c[1]} ELSE @],
                   store, label_index)

save_held(i) ==
    LET o == SaveCall(store, label_index, insts[i].self, insts[i].config_data, << >>, "k2")
    IN TwoCall("save", i, o.err,
               [insts[i] EXCEPT !.saved = IF o.err = "ok" THEN TRUE ELSE @],
               o.store, o.label_index)

ConcInit ==
    /\ tasks = [t \in Tasks |-> Idle]
    /\ insts = [i \in Holders |->
                   Held(NewInstance(SuppliedConfig, None, "k1", NoLabels, FALSE), {}, FALSE)]

----------------------------------------------------------------------------
\* one Instance call of a longer behaviour of one integration
ResaveCall(op, err, obj, st, li) ==
    /\ nops < MaxResaveOps
    /\ nops' = nops + 1
    /\ inst_last' = [op |-> op, supplier |-> "", data |-> EmptyMap, err |-> err]
    /\ config_data' = obj.config_data
    /\ state' = obj.state
    /\ self' = obj.self
    /\ contributed' = obj.contributed
    /\ store' = st
    /\ label_index' = li
    /\ UNCHANGED <<last, saved_under, concVars, asmVars>>

\* Instance(integration, namespace=None, primary_key=..., labels=...)
resave_new_instance ==
    \E primary_key \in OptionalPrimaryKeys, labels \in OptionalLabels :
        LET n == NewInstance(SuppliedConfig, None, primary_key, labels, FALSE)
        IN ResaveCall("new_instance", n.err, IF n.err = "ok" THEN n ELSE Current,
                      store, label_index)

resave_add_configuration ==
    \E c \in TwoContributions :
        LET o == AddConfigurationCall(config_data, state, c[1], c[2])
        IN ResaveCall("add_configuration", o.err,
                      [Current EXCEPT !.config_data = o.config_data, !.state = o.state,
                                      !.contributed = IF o.err = "ok" THEN @ \cup {c[1]} ELSE @],
                      store, label_index)

resave_save ==
    \E uuid \in UuidKeys :
        \E order \in Orders(IF self.labels = NoLabels THEN {}
                             ELSE DOMAIN (CHOOSE l \in self.labels : TRUE)) :
            LET o == SaveCall(store, label_index, self, config_data, order, uuid)
            IN ResaveCall("save", o.err, Current, o.store, o.label_index)

resave_restore_by_primary_key ==
    \E primary_key \in UuidKeys :
        LET o == RestoreByPrimaryKeyCall(store, label_index, SuppliedConfig, primary_key, None)
        IN ResaveCall("restore_by_primary_key", o.err, IF o.err = "ok" THEN o.obj ELSE Current,
                      o.store, o.label_index)

resave_restore_by_labels ==
    \E labels \in FewLabelSets :
        \E order \in Orders(DOMAIN labels) :
            LET o == RestoreByLabelsCall(store, label_index, SuppliedConfig, labels, order, None)
            IN ResaveCall("restore_by_labels", o.err, IF o.err = "ok" THEN o.obj ELSE Current,
                          o.store, o.label_index)

----------------------------------------------------------------------------
(* Schemas as their author declared them.  json_schema_extra holds what    *)
(* the author wrote under "supplier" and "sensitive": a value of some      *)
(* Python type.  The Instance reads it by reflection on every call, never  *)
(* once for all.                                                            *)

StrTag(s) == [type |-> "str", value |-> s]

\* sensitive=True, as extras(..., sensitive: bool) invites
BoolTag == [type |-> "bool", value |-> "True"]

\* the schema of the sections above: every tag well formed
WellFormed ==
    [f \in Fields |-> [supplier |-> StrTag(GetFieldSupplier(f)),
                       sensitive |-> StrTag(GetFieldSensitivity(f))]]

\* the well-formed schema and the schemas with one malformed tag
Schemas ==
    {WellFormed}
    \cup {[WellFormed EXCEPT ![f].supplier = StrTag("owner")] : f \in Fields}
    \cup {[WellFormed EXCEPT ![f].sensitive = t] : f \in Fields, t \in {StrTag("secret"), BoolTag}}

\* _get_extra_field(field_info, name, str, default) followed by the
\* membership test of _get_field_supplier / _get_field_sensitivity
GetExtraField(tag, allowed) ==
    IF tag.type /= "str" \/ tag.value \notin allowed
    THEN [err |-> "ValueError", val |-> ""]
    ELSE [err |-> "ok", val |-> tag.value]

GetFieldSupplierOf(schema, f) == GetExtraField(schema[f].supplier, Suppliers)

GetFieldSensitivityOf(schema, f) == GetExtraField(schema[f].sensitive, {"none", "low", "high"})

\* get_model(supplier): asks every field of the schema for its supplier
GetModelOf(schema, supplier) ==
    IF \E f \in Fields : GetFieldSupplierOf(schema, f).err /= "ok"
    THEN [err |-> "ValueError", fields |-> {}]
    ELSE [err |-> "ok",
          fields |-> {f \in Fields : GetFieldSupplierOf(schema, f).val = supplier}]

\* add_configuration on an Instance of the schema
AddConfigurationOf(schema, cd, st, supplier, data) ==
    LET model == GetModelOf(schema, supplier)
    IN IF model.err /= "ok"
       THEN [config_data |-> cd, state |-> st, err |-> model.err]
       ELSE IF ~ModelAccepts(model.fields, data)
       THEN [config_data |-> cd, state |-> st, err |-> "ValidationError"]
       ELSE [config_data |-> MapUpdate(cd, data),
             state |-> UpdateState(MapUpdate(cd, data)), err |-> "ok"]

\* Instance.__init__ for an integration of the schema
InstanceOf(schema, supplied_config, primary_key, labels, temporary) ==
    LET admin_model == GetModelOf(schema, "admin")
        none == [config_data |-> EmptyMap, state |-> "pending", err |-> "ok"]
    IN IF primary_key = None /\ labels = NoLabels /\ ~temporary
       THEN [none EXCEPT !.err = "IlpasValueError"]
       ELSE IF admin_model.err /= "ok"
       THEN [none EXCEPT !.err = admin_model.err]
       ELSE IF ~ModelAccepts(admin_model.fields, supplied_config)
       THEN [none EXCEPT !.err = "ValidationError"]
       ELSE AddConfigurationOf(schema, EmptyMap, "pending", "admin", supplied_config)

\* Catalog.add_integration on a catalog that is not finalized: the guid
\* must be new, then Instance(integration) is constructed with no
\* primary_key, no labels and temporary left False, then the integration is
\* registered
AddIntegrationCall(registry, guid, schema, supplied_config) ==
    LET i == InstanceOf(schema, supplied_config, None, NoLabels, FALSE)
    IN IF guid \in DOMAIN registry
       THEN [registry |-> registry, err |-> "ValueError"]
       ELSE IF i.err /= "ok"
       THEN [registry |-> registry, err |-> i.err]
       ELSE [registry |-> MapPut(registry, guid, schema), err |-> "ok"]

\* serialize_config on an Instance of the schema: the sensitivity of every
\* field of the supplier's model is read before redact is looked at
SerializeConfigOf(schema, cd, supplier, redact) ==
    LET model == GetModelOf(schema, supplier)
        keep == {f \in model.fields :
                    /\ ~(redact /\ GetFieldSensitivityOf(schema, f).val = "high")
                    /\ f \in DOMAIN cd}
    IN IF model.err /= "ok" THEN [err |-> model.err, data |-> EmptyMap]
       ELSE IF \E f \in model.fields : GetFieldSensitivityOf(schema, f).err /= "ok"
       THEN [err |-> "ValueError", data |-> EmptyMap]
       ELSE [err |-> "ok", data |-> [f \in keep |-> cd[f]]]

\* save of an Instance of the schema built with primary_key, no labels
SaveOf(st, li, schema, cd, primary_key) ==
    LET user_config == SerializeConfigOf(schema, cd, "user", FALSE)
        callback_config == SerializeConfigOf(schema, cd, "callback", FALSE)
        value == [sup \in {"user", "callback"} |->
                     IF sup = "user" THEN user_config.data ELSE callback_config.data]
        o == PutByPrimaryKeyCall(st, li, value, EmptyMap, primary_key, None, FALSE)
    IN IF user_config.err /= "ok"
       THEN [store |-> st, label_index |-> li, err |-> user_config.err]
       ELSE IF callback_config.err /= "ok"
       THEN [store |-> st, label_index |-> li, err |-> callback_config.err]
       ELSE [store |-> o.store, label_index |-> o.label_index, err |-> o.err]

\* one call in a behaviour about declared schemas
DeclCall(op, err, supplier, d, st, li) ==
    /\ decl' = [d EXCEPT !.op = op, !.err = err, !.supplier = supplier]
    /\ store' = st
    /\ label_index' = li
    /\ UNCHANGED <<last, nops, instVars, concVars, asm>>

\* Catalog.finalize() that accepts a second call
FinalizeCallRepeatable(finalized) ==
    [finalized |-> TRUE, err |-> "ok"]

\* Catalog.finalize(): refused on a finalized catalog; otherwise the flag is
\* set, then the enum of the registered guids and the dependency functions
\* are built
FinalizeCall(finalized) ==
    IF finalized
    THEN [finalized |-> finalized, err |-> "RuntimeError"]
    ELSE [finalized |-> TRUE, err |-> "ok"]

\* Catalog.router(info, connect, admin): refused before finalize; the admin
\* router is not implemented
RouterCall(finalized, info, connect, admin) ==
    IF ~finalized THEN "RuntimeError"
    ELSE IF admin THEN "NotImplementedError"
    ELSE "ok"

\* Catalog.add_integration(integration)
add_integration ==
    \E schema \in Schemas :
        LET o == IF decl.finalized
                 THEN [registry |-> decl.registry, err |-> "RuntimeError"]
                 ELSE AddIntegrationCall(decl.registry, "slack_latest", schema, SuppliedConfig)
        IN DeclCall("add_integration", o.err, "",
                    [decl EXCEPT !.registry = o.registry], store, label_index)

\* Catalog.finalize()
finalize ==
    LET o == FinalizeCall(decl.finalized)
    IN DeclCall("finalize", o.err, "",
                [decl EXCEPT !.finalized = o.finalized], store, label_index)

\* Catalog.router(info, connect, admin)
router ==
    \E info \in BOOLEAN, connect \in BOOLEAN, admin \in BOOLEAN :
        DeclCall("router", RouterCall(decl.finalized, info, connect, admin), "",
                 decl, store, label_index)

\* Instance(integration, primary_key="k1", namespace=None); when it raises,
\* the caller is left with the Instance it had
construct ==
    \E schema \in Schemas :
        LET o == InstanceOf(schema, SuppliedConfig, "k1", NoLabels, FALSE)
        IN DeclCall("Instance", o.err, "",
                    IF o.err = "ok"
                    THEN [decl EXCEPT !.schema = schema, !.constructed = TRUE,
                                      !.config_data = o.config_data, !.state = o.state]
                    ELSE decl,
                    store, label_index)

decl_add_configuration ==
    \E c \in TwoContributions :
        LET o == AddConfigurationOf(decl.schema, decl.config_data, decl.state, c[1], c[2])
        IN /\ decl.constructed
           /\ DeclCall("add_configuration", o.err, c[1],
                       [decl EXCEPT !.config_data = o.config_data, !.state = o.state],
                       store, label_index)

decl_serialize_config ==
    \E supplier \in Suppliers, redact \in BOOLEAN :
        LET o == SerializeConfigOf(decl.schema, decl.config_data, supplier, redact)
        IN /\ decl.constructed
           /\ DeclCall("serialize_config", o.err, supplier, decl,
                       store, label_index)

decl_save ==
    LET o == SaveOf(store, label_index, decl.schema, decl.config_data, "k1")
    IN /\ decl.constructed
       /\ DeclCall("save", o.err, "", decl, o.store, o.label_index)

\* a new Catalog: not finalized, no integration registered; no Instance
\* constructed
DeclInit ==
    decl = [schema |-> WellFormed, constructed |-> FALSE, config_data |-> EmptyMap,
            state |-> "pending", registry |-> EmptyMap, finalized |-> FALSE,
            op |-> "init", err |-> "ok",
            supplier |-> ""]

----------------------------------------------------------------------------
(* The three assemblers.  Instance, InstanceManager and                     *)
(* ConfigurationManager validate and merge a contribution with the same     *)
(* code (get_model, validation by the model, _config_data.update) and     *)
(* differ in what the constructor merges, in _update_state and build_model. *)

Assemblers == {"Instance", "InstanceManager", "ConfigurationManager"}

\* InstanceManager._update_state
ManagerUpdateState(cd) ==
    IF BuildModel(cd) THEN "complete"
    ELSE IF DOMAIN cd /= {} THEN "partial"
    ELSE "pending"

\* ConfigurationManager._update_state: by the presence of the required
\* fields of _requirements
ConfigurationUpdateState(cd) ==
    IF \A f \in Fields : IsFieldRequired(f) => f \in DOMAIN cd THEN "complete"
    ELSE IF DOMAIN cd /= {} THEN "partial"
    ELSE "pending"

\* _update_state of each assembler
UpdateStateOf(v, cd) ==
    CASE v = "Instance" -> UpdateState(cd)
      [] v = "InstanceManager" -> ManagerUpdateState(cd)
      [] v = "ConfigurationManager" -> ConfigurationUpdateState(cd)

\* build_model of each assembler: built is FALSE for None
BuildModelOf(v, cd) ==
    IF v = "ConfigurationManager"
    THEN IF BuildModel(cd) THEN [err |-> "ok", built |-> TRUE]
                           ELSE [err |-> "ValidationError", built |-> FALSE]
    ELSE [err |-> "ok", built |-> BuildModel(cd)]

\* add_configuration replacing the accumulated data by the contribution
AddConfigurationToReplaces(v, a, supplier, data) ==
    IF ~ModelAccepts(GetModel(supplier), data)
    THEN [config_data |-> a.config_data, state |-> a.state, err |-> "ValidationError"]
    ELSE [config_data |-> data, state |-> UpdateStateOf(v, data), err |-> "ok"]

\* add_configuration of each assembler
AddConfigurationTo(v, a, supplier, data) ==
    IF ~ModelAccepts(GetModel(supplier), data)
    THEN [config_data |-> a.config_data, state |-> a.state, err |-> "ValidationError"]
    ELSE [config_data |-> MapUpdate(a.config_data, data),
          state |-> UpdateStateOf(v, MapUpdate(a.config_data, data)), err |-> "ok"]

\* the same add_configuration call made on the three
assemblers_add_configuration ==
    \E supplier \in Suppliers, data \in ConfigDicts :
        LET o == [v \in Assemblers |-> AddConfigurationTo(v, asm.held[v], supplier, data)]
        IN /\ asm' = [held |-> [v \in Assemblers |->
                                   [config_data |-> o[v].config_data, state |-> o[v].state]],
                      op |-> "add_configuration", supplier |-> supplier,
                      res |-> [v \in Assemblers |-> [err |-> o[v].err, built |-> FALSE]]]
           /\ UNCHANGED <<storeVars, instVars, concVars, decl>>

\* build_model called on the three
assemblers_build_model ==
    /\ asm' = [asm EXCEPT !.op = "build_model", !.supplier = "",
                          !.res = [v \in Assemblers |->
                                      BuildModelOf(v, asm.held[v].config_data)]]
    /\ UNCHANGED <<storeVars, instVars, concVars, decl>>

\* the three just constructed: Instance.__init__ has added the admin
\* configuration of its integration, the managers hold nothing
AsmInit ==
    LET i == AddConfigurationCall(EmptyMap, "pending", "admin", SuppliedConfig)
    IN asm = [held |-> [v \in Assemblers |->
                           IF v = "Instance"
                           THEN [config_data |-> i.config_data, state |-> i.state]
                           ELSE [config_data |-> EmptyMap, state |-> "pending"]],
              op |-> "init", supplier |-> "",
              res |-> [v \in Assemblers |-> [err |-> "ok", built |-> FALSE]]]

Init == StoreInit /\ InstanceInit /\ ConcInit /\ DeclInit /\ AsmInit

\* the store, used through its default namespace
Next ==
    \/ put_by_primary_key(DefaultOnly, LabelSets)
    \/ put_by_labels(DefaultOnly, LabelSets)
    \/ get_by_primary_key(DefaultOnly)
    \/ get_by_labels(DefaultOnly, LabelSets)
    \/ search(DefaultOnly, LabelSets)
    \/ delete_by_primary_key(DefaultOnly)

Spec == Init /\ [][Next]_vars

\* the store, used through two namespaces
NextNamespaces ==
    \/ put_by_primary_key(NamespaceArgs, FewLabelSets)
    \/ put_by_labels(NamespaceArgs, FewLabelSets)
    \/ get_by_primary_key(NamespaceArgs)
    \/ get_by_labels(NamespaceArgs, FewLabelSets)
    \/ search(NamespaceArgs, FewLabelSets)
    \/ delete_by_primary_key(NamespaceArgs)

SpecNamespaces == Init /\ [][NextNamespaces]_vars

\* the store, used through its default namespace for longer
NextDeep ==
    \/ deep_put_by_primary_key
    \/ deep_put_by_labels
    \/ deep_get_by_labels
    \/ deep_search
    \/ deep_delete_by_primary_key

SpecDeep == Init /\ [][NextDeep]_vars

\* one Instance taking contributions
NextInstance == add_configuration \/ serialize_config

SpecInstance == Init /\ [][NextInstance]_vars

\* Instances that take contributions, are saved to the store and restored
NextSave ==
    \/ new_instance
    \/ contribute(FewConfigDicts)
    \/ save
    \/ restore_by_primary_key
    \/ restore_by_labels

SpecSave == Init /\ [][NextSave]_vars

\* Instances of one integration saved, restored and saved again
NextResave ==
    \/ resave_new_instance
    \/ resave_add_configuration
    \/ resave_save
    \/ resave_restore_by_primary_key
    \/ resave_restore_by_labels

SpecResave == Init /\ [][NextResave]_vars

\* two tasks calling put_by_labels concurrently
NextRace ==
    \E t \in Tasks :
        \/ put_by_labels_ensure(t)
        \/ put_by_labels_find(t)
        \/ put_by_labels_write(t)

SpecRace == Init /\ [][NextRace]_vars

\* two holders restoring, changing and saving the same record
NextTwo ==
    \E i \in Holders :
        \/ restore_held(i)
        \/ contribute_held(i)
        \/ save_held(i)

SpecTwo == Init /\ [][NextTwo]_vars

\* integrations of declared schemas registered, instantiated and used
NextSchema ==
    \/ add_integration
    \/ finalize
    \/ router
    \/ construct
    \/ decl_add_configuration
    \/ decl_serialize_config
    \/ decl_save

SpecSchema == Init /\ [][NextSchema]_vars

\* the three assemblers given the same calls
NextAssemblers == assemblers_add_configuration \/ assemblers_build_model

SpecAssemblers == Init /\ [][NextAssemblers]_vars

----------------------------------------------------------------------------
(* Properties of the store *)

\* S is a subset of L, both read as sets of (key, value) pairs
IsSubLabels(S, L) == \A k \in DOMAIN S : k \in DOMAIN L /\ L[k] = S[k]

\* the records of namespace ns whose stored labels contain every pair of P
Matching(ns, P) == {pk \in DOMAIN store[ns] : IsSubLabels(P, store[ns][pk].labels)}

\* the primary keys of a result list
KeysOf(res) == {r.primary_key : r \in res}

\* the pair (k, P[k]) has no entry in the index of ns
PairAbsent(ns, P, k) ==
    k \notin DOMAIN label_index[ns] \/ P[k] \notin DOMAIN label_index[ns][k]

\* C1 (index completeness): for every record stored in a namespace N and
\* every (label_key, label_value) pair of its stored labels, the record's
\* primary key is a member of label_index[N][label_key][label_value].
IndexComplete ==
    \A ns \in DOMAIN store : \A pk \in DOMAIN store[ns] :
        \A k \in DOMAIN store[ns][pk].labels :
            LET v == store[ns][pk].labels[k]
            IN /\ k \in DOMAIN label_index[ns]
               /\ v \in DOMAIN label_index[ns][k]
               /\ pk \in label_index[ns][k][v]

\* C2 (search completeness): in every reachable state search(P, N) succeeds
\* and returns every record of N whose stored labels contain all pairs of P,
\* with the record's stored value and labels; with P empty, all records of N.
SearchComplete ==
    \A ns \in DOMAIN store : \A P \in LabelSets : \A order \in Orders(DOMAIN P) :
        LET o == SearchCall(store, label_index, P, order, ns)
        IN /\ o.err = "ok"
           /\ \A pk \in Matching(ns, P) : SearchResult(NsOf(store, label_index, ns), pk) \in o.res
           /\ (DOMAIN P = {} => KeysOf(o.res) = DOMAIN store[ns])

\* C3 (absent pair matches nothing): when a requested (key, value) pair has
\* its key absent from the namespace's index, or its value absent under that
\* key, label matching returns the empty set, search returns no record and
\* get_by_labels fails as not found.
AbsentPairMatchesNothing ==
    \A ns \in DOMAIN store : \A P \in LabelSets : \A order \in Orders(DOMAIN P) :
        (\E k \in DOMAIN P : PairAbsent(ns, P, k)) =>
            /\ FindPrimaryKeysByLabels(NsOf(store, label_index, ns), P, order).keys = {}
            /\ SearchCall(store, label_index, P, order, ns).res = {}
            /\ GetByLabelsCall(store, label_index, P, order, ns).err = "NotFoundException"

\* the label sets that are subsets of L
SubLabels(L) == {[k \in D |-> L[k]] : D \in SUBSET DOMAIN L}

Puts == {"put_by_primary_key", "put_by_labels"}

Reads == {"get_by_primary_key", "get_by_labels", "search"}

\* C4 (namespace isolation): a call addressed to namespace N1 leaves the
\* records and the label index of every other namespace unchanged, and every
\* record a read in N1 returns is the record N1 stores under that key.
NamespaceIsolation ==
    [][/\ \A ns \in DOMAIN store :
            ns /= last'.ns =>
                /\ ns \in DOMAIN store'
                /\ store'[ns] = store[ns]
                /\ label_index'[ns] = label_index[ns]
       /\ (last'.op \in Reads /\ last'.err = "ok") =>
            \A r \in last'.res :
                /\ r.primary_key \in DOMAIN store'[last'.ns]
                /\ r = SearchResult(NsOf(store', label_index', last'.ns), r.primary_key)]_vars

\* C4 witness: both namespaces hold a record with the same primary key and
\* labels, and a put addressed to "default" has just rewritten its own one.
NamespaceIsolationWitness ==
    /\ last.op = "put_by_primary_key" /\ last.ns = "default" /\ last.err = "ok"
    /\ DOMAIN store = {"default", "tenant"}
    /\ last.pk \in DOMAIN store["tenant"]
    /\ store["tenant"][last.pk] = Rec("V1", MapPut(EmptyMap, "a", "x"))
    /\ store["default"][last.pk] = Rec("V2", MapPut(EmptyMap, "a", "x"))
    /\ nops = MaxOps

\* C5 (label round-trip): immediately after put_by_labels(V, L, N) succeeds,
\* get_by_labels(L, N) succeeds and returns the record with value V, labels L
\* and the primary key put_by_labels returned.
LabelRoundTrip ==
    (last.op = "put_by_labels" /\ last.err = "ok") =>
        \A order \in Orders(DOMAIN last.labels) :
            LET g == GetByLabelsCall(store, label_index, last.labels, order, last.ns)
            IN /\ g.err = "ok"
               /\ g.res = {[primary_key |-> last.ret, value |-> last.value,
                            labels |-> last.labels]}

\* C6 (single-match enforcement): whenever two records of a namespace carry
\* identical label sets L, get_by_labels(L) and put_by_labels(.., L) fail with
\* a conflict.
SingleMatchEnforced ==
    \A ns \in DOMAIN store : \A p, q \in DOMAIN store[ns] :
        (p /= q /\ store[ns][p].labels = store[ns][q].labels) =>
            LET L == store[ns][p].labels
            IN \A order \in Orders(DOMAIN L) :
                /\ GetByLabelsCall(store, label_index, L, order, ns).err = "ConflictException"
                /\ \A v \in Values, uuid \in UuidKeys :
                    PutByLabelsCall(store, label_index, v, L, order, ns, uuid).err
                        = "ConflictException"

\* C7 (index consistency after update): after a put replaces the labels L1
\* of an existing record by L2, search(L2) includes the record and search(S)
\* does not include it for any subset S of L1 that is not a subset of L2.
IndexConsistentAfterUpdate ==
    [][(/\ last'.op \in Puts /\ last'.err = "ok" /\ nops' = nops + 1
        /\ last'.ns \in DOMAIN store
        /\ last'.ret \in DOMAIN store[last'.ns]) =>
            LET ns == last'.ns
                pk == last'.ret
                L1 == store[ns][pk].labels
                L2 == last'.labels
            IN /\ \A order \in Orders(DOMAIN L2) :
                    pk \in KeysOf(SearchCall(store', label_index', L2, order, ns).res)
               /\ \A S \in SubLabels(L1) :
                    ~IsSubLabels(S, L2) =>
                        \A order \in Orders(DOMAIN S) :
                            pk \notin KeysOf(SearchCall(store', label_index', S, order, ns).res)]_vars

\* C8 (exact match in put_by_labels): put_by_labels(V, L, N) does not select
\* a record whose labels are a strict superset of L, and does not replace
\* that record's labels by L.
PutByLabelsMatchesExactly ==
    [][(last'.op = "put_by_labels" /\ nops' = nops + 1 /\ last'.ns \in DOMAIN store) =>
            \A pk \in DOMAIN store[last'.ns] :
                LET old == store[last'.ns][pk].labels
                IN (IsSubLabels(last'.labels, old) /\ old /= last'.labels) =>
                    /\ ~(last'.err = "ok" /\ last'.ret = pk)
                    /\ store'[last'.ns][pk].labels /= last'.labels]_vars

----------------------------------------------------------------------------
(* Properties of the Instance *)

\* the contribution breaks the supplier's sub-schema: a required field of
\* that supplier is missing, or a field of it has a value its type or
\* constraint rejects
ViolatesSubSchema(supplier, data) ==
    \E f \in Fields :
        /\ GetFieldSupplier(f) = supplier
        /\ \/ f \notin DOMAIN data /\ IsFieldRequired(f)
           \/ f \in DOMAIN data /\ ~FieldAccepts(f, data[f])

\* C9 (unknown fields rejected): add_configuration(supplier, data) fails
\* whenever data names a field that supplier does not own.
UnownedFieldsRejected ==
    (/\ inst_last.op = "add_configuration"
     /\ \E f \in DOMAIN inst_last.data : f \notin GetModel(inst_last.supplier)) =>
        inst_last.err = "ValidationError"

\* C10 (failed add_configuration is atomic): a contribution that violates the
\* supplier's sub-schema raises, and a call that raises leaves the accumulated
\* field map and the lifecycle state exactly as they were.
FailedAddIsAtomic ==
    [][/\ (inst_last'.op = "add_configuration"
           /\ ViolatesSubSchema(inst_last'.supplier, inst_last'.data)) =>
                inst_last'.err = "ValidationError"
       /\ inst_last'.err /= "ok" => (config_data' = config_data /\ state' = state)]_vars

\* C10 witness: a rejected contribution that also carried a valid value the
\* accumulated map does not hold, after an earlier accepted user contribution
FailedAddIsAtomicWitness ==
    /\ inst_last.op = "add_configuration" /\ inst_last.err = "ValidationError"
    /\ "default_channel" \in DOMAIN config_data
    /\ \E f \in DOMAIN inst_last.data :
        /\ f \in GetModel(inst_last.supplier)
        /\ FieldAccepts(f, inst_last.data[f])
        /\ (f \notin DOMAIN config_data \/ config_data[f] /= inst_last.data[f])

\* C11 (derived state never drifts): in every state of an Instance, after
\* construction and after every accepted or rejected add_configuration, the
\* lifecycle state is "healthy" exactly when build_model on the accumulated
\* data succeeds and "pending" otherwise; "unhealthy" is never reached.
StateNeverDrifts ==
    /\ state \in {"pending", "healthy"}
    /\ state = "healthy" <=> ModelAccepts(Fields, config_data)

\* C11 witness: an accepted contribution after which both required fields
\* are present and the build still fails, so the state is "pending"
StateNeverDriftsWitness ==
    /\ inst_last.op = "add_configuration" /\ inst_last.err = "ok"
    /\ state = "pending"
    /\ {"api_key", "default_channel"} \subseteq DOMAIN config_data

\* C12 (assembler completeness): with one admin-owned and one user-owned
\* required field, build_model is incomplete in every state in which fewer
\* than both of admin and user have had a contribution accepted, and complete
\* immediately after the second of the two has had one accepted.
AssemblerCompleteness ==
    /\ ~({"admin", "user"} \subseteq contributed) => ~BuildModel(config_data)
    /\ (/\ inst_last.op = "add_configuration" /\ inst_last.err = "ok"
        /\ inst_last.supplier \in {"admin", "user"}
        /\ {"admin", "user"} \subseteq contributed) => BuildModel(config_data)

\* C15 (redaction): a field of sensitivity "high" is absent from
\* serialize_config(supplier, redact=True) even when it is present in the
\* accumulated data, it is present in serialize_config(supplier, redact=False)
\* whenever the supplier owns it and it is present, and a field of sensitivity
\* "none" or "low" that the supplier owns and that is present is returned
\* under both values of redact.
RedactionHidesHigh ==
    inst_last.op = "serialize_config" =>
        \A f \in Fields :
            /\ (inst_last.redact /\ GetFieldSensitivity(f) = "high") =>
                    f \notin DOMAIN inst_last.data
            /\ (/\ GetFieldSupplier(f) = inst_last.supplier
                /\ f \in DOMAIN config_data
                /\ (~inst_last.redact \/ GetFieldSensitivity(f) \in {"none", "low"})) =>
                    (f \in DOMAIN inst_last.data /\ inst_last.data[f] = config_data[f])

\* C15 witness: a redacted answer of the callback supplier while its high
\* refresh_token is present
RedactionHidesHighWitness ==
    /\ inst_last.op = "serialize_config" /\ inst_last.redact
    /\ inst_last.supplier = "callback"
    /\ "refresh_token" \in DOMAIN config_data

\* C16 (serialization is scoped to the supplier): serialize_config(supplier)
\* returns only fields the supplier owns, each with its current accumulated
\* value; fields of other suppliers and names outside the schema never appear,
\* even when they are present in the accumulated data.
SerializeScopedToSupplier ==
    inst_last.op = "serialize_config" =>
        /\ DOMAIN inst_last.data \subseteq GetModel(inst_last.supplier)
        /\ \A f \in DOMAIN inst_last.data :
                f \in DOMAIN config_data /\ inst_last.data[f] = config_data[f]

\* C16 witness: a non-empty answer for the user while the accumulated data
\* also holds the admin's field and a name outside the schema
SerializeScopedToSupplierWitness ==
    /\ inst_last.op = "serialize_config" /\ inst_last.supplier = "user"
    /\ inst_last.data /= EmptyMap
    /\ {"api_key", "bogus"} \subseteq DOMAIN config_data

----------------------------------------------------------------------------
(* Properties of the store: label key-sets and primary-key access *)

\* C17 (uniform label key-sets): within a namespace every record carries
\* every label key present in that namespace's index, including records
\* inserted after a key was introduced and records relabelled by a put.
UniformLabelKeySets ==
    \A ns \in DOMAIN store : \A pk \in DOMAIN store[ns] :
        \A k \in DOMAIN label_index[ns] : k \in DOMAIN store[ns][pk].labels

\* a put that returned and whose labels carry a key k the namespace's index
\* did not hold before the call
Introduces(k) ==
    /\ last'.op \in Puts /\ last'.err = "ok"
    /\ k \in DOMAIN last'.labels
    /\ (last'.ns \in DOMAIN label_index => k \notin DOMAIN label_index[last'.ns])

\* every other record of the namespace has k: null in its stored labels and
\* is in the index under (k, null)
BackFilled(k) ==
    \A A \in DOMAIN store'[last'.ns] \ {last'.ret} :
        /\ k \in DOMAIN store'[last'.ns][A].labels
        /\ store'[last'.ns][A].labels[k] = None
        /\ None \in DOMAIN label_index'[last'.ns][k]
        /\ A \in label_index'[last'.ns][k][None]

\* the primary keys search({k: null}) answers after the put
NullSearch(k) ==
    SearchCall(store', label_index', MapPut(EmptyMap, k, None), <<k>>, last'.ns)

\* C18 as stated (retroactive null indexing): when a put of record B
\* introduces a label key k, every other record A of the namespace gets
\* k: null in its labels and in the index, and a following search({k: null})
\* includes A and does not include B.
RetroactiveNullExcludesNewRecord ==
    [][\A k \in LabelKeys : Introduces(k) =>
        /\ BackFilled(k)
        /\ NullSearch(k).err = "ok"
        /\ DOMAIN store'[last'.ns] \ {last'.ret} \subseteq KeysOf(NullSearch(k).res)
        /\ last'.ret \notin KeysOf(NullSearch(k).res)]_vars

\* C18 amended: as above, and the search includes B exactly when B itself
\* carries k with the value null.
RetroactiveNullIndexing ==
    [][\A k \in LabelKeys : Introduces(k) =>
        /\ BackFilled(k)
        /\ NullSearch(k).err = "ok"
        /\ DOMAIN store'[last'.ns] \ {last'.ret} \subseteq KeysOf(NullSearch(k).res)
        /\ last'.ret \in KeysOf(NullSearch(k).res) <=> last'.labels[k] = None]_vars

\* C18 witness: a put has just introduced a key with a non-null value while
\* another record existed, that record now carries the key as null, and the
\* search for the null value answers that record only
RetroactiveNullIndexingWitness ==
    /\ last.op \in Puts /\ last.err = "ok"
    /\ \E k \in DOMAIN last.labels : \E A \in DOMAIN store[last.ns] \ {last.ret} :
        /\ last.labels[k] /= None
        /\ k \in DOMAIN store[last.ns][A].labels
        /\ store[last.ns][A].labels[k] = None
        /\ KeysOf(SearchCall(store, label_index, MapPut(EmptyMap, k, None),
                             <<k>>, last.ns).res) = {A}

GetMissingKeyIsNotFound ==
    [][(/\ last'.op = "get_by_primary_key"
        /\ last'.ns \in DOMAIN store
        /\ last'.pk \notin DOMAIN store[last'.ns]) =>
            /\ last'.err = "NotFoundException"
            /\ store' = store /\ label_index' = label_index]_vars

\* the deleted key is gone: no read by primary key, no index set, no search
\* and no get_by_labels of the namespace answers it, and search({}) still
\* answers every other record
DeletedIsGone(st, li, ns, pk, others) ==
    /\ GetByPrimaryKeyCall(st, li, pk, ns).err /= "ok"
    /\ \A k \in DOMAIN li[ns] : \A v \in DOMAIN li[ns][k] : pk \notin li[ns][k][v]
    /\ \A L \in LabelSets : \A order \in Orders(DOMAIN L) :
        /\ pk \notin KeysOf(SearchCall(st, li, L, order, ns).res)
        /\ pk \notin KeysOf(GetByLabelsCall(st, li, L, order, ns).res)
    /\ others \subseteq KeysOf(SearchCall(st, li, EmptyMap, << >>, ns).res)

\* C21 (delete_by_primary_key): when no record k exists in N, whether or
\* not N exists, the call returns without error and changes nothing; when the
\* record exists, afterwards get_by_primary_key(k, N) fails, no index set of
\* N contains k, no search or get_by_labels in N returns k, and search({})
\* still returns all other records of N.
DeleteRemovesOrDoesNothing ==
    [][last'.op = "delete_by_primary_key" =>
        /\ last'.err = "ok"
        /\ IF last'.ns \notin DOMAIN store \/ last'.pk \notin DOMAIN store[last'.ns]
           THEN store' = store /\ label_index' = label_index
           ELSE DeletedIsGone(store', label_index', last'.ns, last'.pk,
                              DOMAIN store[last'.ns] \ {last'.pk})]_vars

\* C22 (lazy namespaces): get_by_primary_key, get_by_labels and search on a
\* namespace no put has targeted fail with the namespace-not-found error and
\* do not create it; put_by_primary_key and put_by_labels create the
\* namespace on first use, and on an existing namespace they keep every
\* record, the value and labels' keys of every record they do not write, and
\* every key and bucket of the index that the written record did not own.
LazyNamespaces ==
    [][/\ (last'.op \in Reads /\ last'.ns \notin DOMAIN store) =>
            /\ last'.err = "NotFoundException" /\ last'.why = "namespace"
            /\ store' = store /\ label_index' = label_index
       /\ last'.op \in Puts =>
            /\ last'.ns \in DOMAIN store' /\ last'.ns \in DOMAIN label_index'
            /\ \A ns \in DOMAIN store : ns \in DOMAIN store'
            /\ last'.ns \in DOMAIN store =>
                /\ \A pk \in DOMAIN store[last'.ns] :
                    /\ pk \in DOMAIN store'[last'.ns]
                    /\ pk /= last'.ret =>
                        /\ store'[last'.ns][pk].value = store[last'.ns][pk].value
                        /\ DOMAIN store[last'.ns][pk].labels \subseteq
                                DOMAIN store'[last'.ns][pk].labels
                /\ \A k \in DOMAIN label_index[last'.ns] :
                    \A v \in DOMAIN label_index[last'.ns][k] :
                        label_index[last'.ns][k][v] \ {last'.ret} /= {} =>
                            /\ k \in DOMAIN label_index'[last'.ns]
                            /\ v \in DOMAIN label_index'[last'.ns][k]]_vars

\* C22 witness: a put has just returned on a namespace that existed and
\* held another labelled record, while a second namespace holds a record too
LazyNamespacesWitness ==
    /\ last.op \in Puts /\ last.err = "ok"
    /\ \E pk \in DOMAIN store[last.ns] \ {last.ret} :
            store[last.ns][pk].labels /= EmptyMap
    /\ \E ns \in DOMAIN store \ {last.ns} : store[ns] /= EmptyMap

----------------------------------------------------------------------------
(* Properties of save and restore *)

Restores == {"restore_by_primary_key", "restore_by_labels"}

TemporaryNeverSaved ==
    [][(inst_last'.op = "save" /\ self.temporary) =>
        /\ inst_last'.err = "IlpasValueError"
        /\ store' = store /\ label_index' = label_index]_vars

\* C23 witness: a save has just been refused on a temporary Instance that
\* carries a primary key and labels
TemporaryNeverSavedWitness ==
    /\ inst_last.op = "save" /\ inst_last.err = "IlpasValueError"
    /\ self.temporary
    /\ self.primary_key /= None /\ self.labels /= NoLabels

\* the identity modes an Instance carries
HasPrimaryKey == self.primary_key /= None

HasLabels == self.labels /= NoLabels

\* C24 (identity rule): constructing an Instance fails unless exactly one of
\* primary_key, labels, temporary is supplied, and save fails unless exactly
\* one of primary_key and labels is set on the Instance at that time.
ExactlyOneIdentity ==
    /\ (inst_last.op = "new_instance" /\ inst_last.err = "ok") =>
            \/ (HasPrimaryKey /\ ~HasLabels /\ ~self.temporary)
            \/ (~HasPrimaryKey /\ HasLabels /\ ~self.temporary)
            \/ (~HasPrimaryKey /\ ~HasLabels /\ self.temporary)
    /\ (inst_last.op = "save" /\ inst_last.err = "ok") =>
            (HasPrimaryKey /\ ~HasLabels) \/ (~HasPrimaryKey /\ HasLabels)

----------------------------------------------------------------------------
(* Properties of concurrent calls *)

\* the only two calls made so far, started on a store without records, have
\* returned from put_by_labels with the same labels, each having resolved
\* "no match" and inserted a record of its own
BothInserted ==
    /\ nops = 2
    /\ \A t \in Tasks : tasks[t].pc = "done" /\ tasks[t].err = "ok" /\ ~tasks[t].found
    /\ tasks[1].labels = tasks[2].labels
    /\ tasks[1].ret /= tasks[2].ret

\* C25 (known race of put_by_labels): two concurrent put_by_labels calls with
\* the same labels L that both resolve "no match" both insert; the namespace
\* then holds two records carrying L, and get_by_labels(L) and
\* put_by_labels(.., L) raise ConflictException.
PutByLabelsRace ==
    BothInserted =>
        LET L == tasks[1].labels
        IN /\ \A t \in Tasks :
                /\ tasks[t].ret \in DOMAIN store[DefaultNamespace]
                /\ IsSubLabels(L, store[DefaultNamespace][tasks[t].ret].labels)
           /\ \A order \in Orders(DOMAIN L) :
                /\ GetByLabelsCall(store, label_index, L, order, None).err
                        = "ConflictException"
                /\ \A value \in Values, uuid \in UuidKeys :
                        PutByLabelsCall(store, label_index, value, L, order, None, uuid).err
                            = "ConflictException"

\* C25 witness: the race has happened on a label set of two pairs
PutByLabelsRaceWitness ==
    /\ BothInserted
    /\ Cardinality(DOMAIN tasks[1].labels) = 2
    /\ Cardinality(DOMAIN store[DefaultNamespace]) = 2

FreshReplay(integration, value) ==
    LET a == AddConfigurationCall(EmptyMap, "pending", "admin", integration)
        u == AddConfigurationCall(a.config_data, a.state, "user", value["user"])
        c == AddConfigurationCall(u.config_data, u.state, "callback", value["callback"])
    IN IF a.err /= "ok" THEN a ELSE IF u.err /= "ok" THEN u ELSE c

\* the restore answered what the fresh replay of the record gives, and when
\* it returned an Instance, every stored value is in it
SameAsReplay(r, integration, rec) ==
    LET fresh == FreshReplay(integration, rec.value)
    IN /\ r.err = fresh.err
       /\ r.err = "ok" =>
            /\ r.obj.config_data = fresh.config_data
            /\ r.obj.state = fresh.state
            /\ \A sup \in DOMAIN rec.value : \A f \in DOMAIN rec.value[sup] :
                    /\ f \in DOMAIN r.obj.config_data
                    /\ r.obj.config_data[f] = rec.value[sup][f]

\* the user- and callback-owned fields an Instance holds, by supplier
OwnedData(cd) ==
    [sup \in {"user", "callback"} |->
        [f \in {g \in DOMAIN cd : g \in Fields /\ GetFieldSupplier(g) = sup} |-> cd[f]]]

SchemaMetadataFailsFast ==
    (decl.constructed /\ decl.op \in {"add_configuration", "serialize_config", "save"})
        => decl.err /= "ValueError"

\* C29 (build never propagates): in every assembler, build_model on
\* accumulated data that is incomplete or invalid for the full schema
\* returns None and raises nothing.
BuildNeverPropagates ==
    asm.op = "build_model" =>
        \A v \in Assemblers :
            /\ asm.res[v].err = "ok"
            /\ asm.res[v].built = BuildModel(asm.held[v].config_data)

\* the three assemblers hold the same merged data
SameMergedData ==
    \A v, w \in Assemblers : asm.held[v].config_data = asm.held[w].config_data

\* C30 (the assemblers agree on completeness): when the three hold the same
\* merged data, ConfigurationManager is "complete" exactly when
\* InstanceManager is "complete" and exactly when Instance is "healthy",
\* which is exactly when the full schema can be constructed from that data.
AssemblersAgree ==
    SameMergedData =>
        LET ok == BuildModel(asm.held["Instance"].config_data)
        IN /\ (asm.held["ConfigurationManager"].state = "complete") <=> ok
           /\ (asm.held["InstanceManager"].state = "complete") <=> ok
           /\ (asm.held["Instance"].state = "healthy") <=> ok

\* C31 (merge semantics of add_configuration): in each assembler, after a
\* successful add_configuration(supplier, data) every field named in data
\* holds the value given in data, every other field keeps its value, no
\* field is removed, and adding the same contribution again leaves the same
\* accumulated data and state.
MergeSemantics ==
    \A v \in Assemblers, supplier \in Suppliers, data \in ConfigDicts :
        LET before == asm.held[v].config_data
            o == AddConfigurationTo(v, asm.held[v], supplier, data)
            again == AddConfigurationTo(v, o, supplier, data)
        IN o.err = "ok" =>
            /\ DOMAIN o.config_data = DOMAIN before \cup DOMAIN data
            /\ \A f \in DOMAIN data : o.config_data[f] = data[f]
            /\ \A f \in DOMAIN before \ DOMAIN data : o.config_data[f] = before[f]
            /\ again.err = "ok"
            /\ again.config_data = o.config_data
            /\ again.state = o.state

\* C31 witness: the three assemblers have accepted contributions, one of
\* which overwrote the api_key the Instance was constructed with, and still
\* hold a field given before
MergeSemanticsWitness ==
    /\ asm.op = "add_configuration"
    /\ \A v \in Assemblers :
        /\ asm.res[v].err = "ok"
        /\ "api_key" \in DOMAIN asm.held[v].config_data
        /\ asm.held[v].config_data["api_key"] = Str(2)
        /\ "default_channel" \in DOMAIN asm.held[v].config_data
        /\ "rate_limit" \in DOMAIN asm.held[v].config_data

\* C32 (reads are read-only): a get_by_primary_key, get_by_labels or search
\* call, whether it succeeds or fails, leaves the records and the label
\* index of every namespace as they were.
ReadsAreReadOnly ==
    [][last'.op \in {"get_by_primary_key", "get_by_labels", "search"}
          => (store' = store /\ label_index' = label_index)]_vars

\* C33 (index soundness): every primary key found in label_index[N][k][v]
\* names a record of namespace N whose stored labels map k to v, and the
\* existence check of search never fails.
IndexSound ==
    /\ \A N \in DOMAIN label_index : \A k \in DOMAIN label_index[N] :
            \A v \in DOMAIN label_index[N][k] : \A pk \in label_index[N][k][v] :
                /\ N \in DOMAIN store
                /\ pk \in DOMAIN store[N]
                /\ k \in DOMAIN store[N][pk].labels
                /\ store[N][pk].labels[k] = v
    /\ ~(last.op = "search" /\ last.err = "ConflictException")

\* C33 witness: a search has just passed its existence check and returned
\* a record, in a namespace of two records that the index lists under two
\* values of one label key
IndexSoundWitness ==
    /\ last.op = "search" /\ last.err = "ok" /\ last.res /= {}
    /\ last.labels /= EmptyMap
    /\ Cardinality(DOMAIN store[last.ns]) = 2
    /\ \E k \in DOMAIN label_index[last.ns] :
            \E v, w \in DOMAIN label_index[last.ns][k] :
                /\ v /= w
                /\ label_index[last.ns][k][v] /= {}
                /\ label_index[last.ns][k][w] /= {}

\* the record a write acts on: the key given, or the key put_by_labels
\* returned; none when the call raised
ActsOn(call) ==
    IF call.err /= "ok" THEN {}
    ELSE IF call.op = "put_by_labels" THEN {call.ret}
    ELSE {call.pk}

\* record Q of namespace N is in `after` what it was in `before`, but for
\* label keys it did not carry, added with value null
Undamaged(before, after, N, Q) ==
    /\ N \in DOMAIN after
    /\ Q \in DOMAIN after[N]
    /\ after[N][Q].value = before[N][Q].value
    /\ DOMAIN before[N][Q].labels \subseteq DOMAIN after[N][Q].labels
    /\ \A k \in DOMAIN after[N][Q].labels :
            IF k \in DOMAIN before[N][Q].labels
            THEN after[N][Q].labels[k] = before[N][Q].labels[k]
            ELSE after[N][Q].labels[k] = None

\* C34 (writes to one record do not damage others): a put_by_primary_key,
\* put_by_labels or delete_by_primary_key acting on record P leaves every
\* other record Q of the namespace with its value and with the value of
\* every label key it carried; the only change to Q is a label key it did
\* not carry, added with value null.
WritesSpareOthers ==
    [][last'.op \in {"put_by_primary_key", "put_by_labels", "delete_by_primary_key"}
          => \A N \in DOMAIN store : \A Q \in DOMAIN store[N] :
                (N = last'.ns /\ Q \in ActsOn(last')) \/ Undamaged(store, store', N, Q)]_vars

\* C35 (admin fields are controlled only by the registration): an accepted
\* add_configuration made with supplier user or callback leaves every
\* admin-owned field of the accumulated data as it was, so that the admin
\* fields keep the values of the integration's supplied_config that the
\* construction or the restore put there.
AdminFieldsOnlyFromRegistration ==
    [][(/\ inst_last'.op = "add_configuration"
        /\ inst_last'.supplier \in {"user", "callback"}
        /\ inst_last'.err = "ok")
          => \A f \in GetModel("admin") :
                /\ (f \in DOMAIN config_data') <=> (f \in DOMAIN config_data)
                /\ f \in DOMAIN config_data => config_data'[f] = config_data[f]]_vars

\* C36 (a failing store operation changes nothing): whenever a store call
\* ends with a NotFound or Conflict error, the set of namespaces, the
\* records and the label index are exactly as they were before the call.
FailedCallChangesNothing ==
    [][last'.err \in {"NotFoundException", "ConflictException"}
          => (store' = store /\ label_index' = label_index)]_vars

\* the records of `recs` whose stored labels are exactly L
ExactMatches(recs, L) == {pk \in DOMAIN recs : recs[pk].labels = L}

\* C37 (put_by_labels never duplicates a uniquely matched record): when
\* exactly one record of the namespace carries the given labels, whatever
\* its primary key, a successful put_by_labels returns that key and leaves
\* the set of records of the namespace as it was; it adds a record only
\* when no record carries the labels, and then exactly one, under the key
\* it returns, which was not in the namespace.
PutByLabelsNeverDuplicates ==
    [][(last'.op = "put_by_labels" /\ last'.err = "ok")
          => LET N == last'.ns
                 before == IF N \in DOMAIN store THEN store[N] ELSE EmptyMap
                 M == ExactMatches(before, last'.labels)
             IN /\ Cardinality(M) = 1
                    => (last'.ret \in M /\ DOMAIN store'[N] = DOMAIN before)
                /\ DOMAIN store'[N] /= DOMAIN before
                    => /\ M = {}
                       /\ last'.ret \notin DOMAIN before
                       /\ DOMAIN store'[N] = DOMAIN before \cup {last'.ret}]_vars

====
